---------------------------- MODULE Spec2Model ----------------------------
(***************************************************************************)
(* rust-objecthash, src/types.rs: the ObjectHash implementations for the   *)
(* integer types, str/String, Vec<T> and HashMap<K, V, S>.                 *)
(*                                                                         *)
(* A byte is a number in 0..255, a byte string a sequence of bytes.  A     *)
(* hasher is modelled by the byte string it has absorbed so far: the state *)
(* of the digest primitive is a function of exactly that string.           *)
(*                                                                         *)
(* The state machine is the test harness h! of src/types.rs run twice, one *)
(* run after the other: a fresh hasher, value.objecthash(&mut hasher),     *)
(* hasher.finish().                                                        *)
(***************************************************************************)
EXTENDS Integers, Sequences, FiniteSets, TLC

VARIABLES value, hasher, digest, pc

vars == <<value, hasher, digest, pc>>

Runs == {1, 2}

(***************************************************************************)
(* Bounds of the model.                                                    *)
(***************************************************************************)
\* integer inputs: every n with |n| <= MaxInt, besides the width boundaries
MaxInt == 1

\* text inputs: every string of at most MaxStrLen chars of the alphabet
MaxStrLen == 2

\* sequence inputs: at most MaxLen elements
MaxLen == 3

\* mapping inputs: the values 1..MaxMapVal
MaxMapVal == 2

\* value trees: sequences of at most MaxTreeLen elements, integers
\* 0..MaxTreeInt
MaxTreeLen == 2
MaxTreeInt == 1

(***************************************************************************)
(* Bytes and byte strings.                                                 *)
(***************************************************************************)
RECURSIVE Concat(_)
\* the concatenation of a sequence of byte strings
Concat(ss) ==
    IF ss = <<>> THEN <<>> ELSE Head(ss) \o Concat(Tail(ss))

\* lexicographic comparison of two byte strings by unsigned byte value:
\* Ord for Vec<u8>, which digests.sort() uses
RECURSIVE LexLeq(_, _)
LexLeq(x, y) ==
    IF x = <<>> THEN TRUE
    ELSE IF y = <<>> THEN FALSE
    ELSE IF Head(x) < Head(y) THEN TRUE
    ELSE IF Head(x) > Head(y) THEN FALSE
    ELSE LexLeq(Tail(x), Tail(y))

(***************************************************************************)
(* The digest primitive and the ObjectHasher trait.  Neither is part of    *)
(* src/types.rs; they are modelled from the specification: a primitive     *)
(* with a fixed output length, a hasher whose update appends bytes, whose  *)
(* update_nested absorbs the finished digest of an independent fresh       *)
(* hasher, and whose finish returns the digest.                            *)
(***************************************************************************)
\* output length of the digest primitive, in bytes
DigestLen == 3

\* the digest space: 256^DigestLen values
DigestModulus == 256 ^ DigestLen

\* (h * 263) modulo DigestModulus, computed without leaving 32 bits
MulMod(h) ==
    LET lo == h % 65536
        hi == h \div 65536
    IN  (((hi * 263) % (DigestModulus \div 65536)) * 65536 + lo * 263)
            % DigestModulus

RECURSIVE Absorb(_, _)
\* the primitive's internal state after absorbing bytes from state h
Absorb(h, bytes) ==
    IF bytes = <<>> THEN h
    ELSE Absorb((MulMod(h) + Head(bytes) + 1) % DigestModulus, Tail(bytes))

RECURSIVE BigEndian(_, _)
\* the k-byte big-endian form of n
BigEndian(n, k) ==
    IF k = 0 THEN <<>> ELSE BigEndian(n \div 256, k - 1) \o <<n % 256>>

\* the digest primitive: byte string -> DigestLen bytes
Digest(bytes) == BigEndian(Absorb(7, bytes), DigestLen)

\* hasher::default(): a hasher that has absorbed nothing
new_hasher == <<>>

\* ObjectHasher::update
update(h, bytes) == h \o bytes

\* ObjectHasher::finish
finish(h) == Digest(h)

\* ObjectHasher::update_nested; nested is the state the closure leaves a
\* fresh hasher in
update_nested(h, nested) == update(h, finish(nested))

(***************************************************************************)
(* Type tags.                                                              *)
(***************************************************************************)
\* a plausible slip: the tag of a list given to a dict
DICT_TAG_of_list == <<108>>

INTEGER_TAG == <<105>>
STRING_TAG == <<117>>
LIST_TAG == <<108>>
DICT_TAG == <<100>>

\* macro objecthash_digest!
objecthash_digest(h, tag, bytes) == update(update(h, tag), bytes)

(***************************************************************************)
(* Integers.  An integer is held as the machine holds it: the type and the *)
(* little-endian two's complement bytes of its width.                      *)
(***************************************************************************)
IntTypes ==
    {"i8", "i16", "i32", "i64", "u8", "u16", "u32", "u64", "isize", "usize"}

SignedTypes == {"i8", "i16", "i32", "i64", "isize"}

\* std::mem::size_of, on a 64-bit target
size_of(ty) ==
    CASE ty \in {"i8", "u8"} -> 1
      [] ty \in {"i16", "u16"} -> 2
      [] ty \in {"i32", "u32"} -> 4
      [] OTHER -> 8

RECURSIVE LeBytes(_, _)
\* the k low bytes of n >= 0, least significant first
LeBytes(n, k) ==
    IF k = 0 THEN <<>> ELSE <<n % 256>> \o LeBytes(n \div 256, k - 1)

RECURSIVE FromLe(_)
\* the number a little-endian byte string stands for
FromLe(bytes) ==
    IF bytes = <<>> THEN 0 ELSE Head(bytes) + 256 * FromLe(Tail(bytes))

\* bitwise complement
Not(bytes) == [i \in 1..Len(bytes) |-> 255 - bytes[i]]

RECURSIVE WrappingAdd1(_)
\* wrapping_add(1) on a little-endian byte string
WrappingAdd1(bytes) ==
    IF bytes = <<>> THEN <<>>
    ELSE IF Head(bytes) = 255 THEN <<0>> \o WrappingAdd1(Tail(bytes))
    ELSE <<Head(bytes) + 1>> \o Tail(bytes)

\* n as a value of type ty: what `n as ty` stores for n in the type's range
Store(ty, n) ==
    [kind |-> "int", ty |-> ty,
     val |-> IF n >= 0 THEN LeBytes(n, size_of(ty))
             ELSE Not(LeBytes(-n - 1, size_of(ty)))]

\* whether the stored integer is negative
IsNegative(self) ==
    self.ty \in SignedTypes /\ self.val[Len(self.val)] >= 128

\* `self as u64`: sign extension for the signed types, zero extension else
AsU64(self) ==
    self.val \o [i \in 1..(8 - Len(self.val)) |->
                    IF IsNegative(self) THEN 255 ELSE 0]

RECURSIVE DecimalDigits(_)
\* the ASCII decimal digits of n >= 0, most significant first
DecimalDigits(n) ==
    IF n < 10 THEN <<48 + n>>
    ELSE DecimalDigits(n \div 10) \o <<48 + (n % 10)>>

\* a plausible slip: the magnitude printed without its sign
to_string_nosign(self) ==
    IF IsNegative(self)
    THEN DecimalDigits(FromLe(WrappingAdd1(Not(AsU64(self)))))
    ELSE DecimalDigits(FromLe(AsU64(self)))

\* self.to_string() for an integer type (core::fmt::Display): the magnitude
\* is taken in 64 bits, !(self as u64) + 1 for a negative value, and
\* printed in decimal after a '-' for a negative value
to_string(self) ==
    IF IsNegative(self)
    THEN <<45>> \o DecimalDigits(FromLe(WrappingAdd1(Not(AsU64(self)))))
    ELSE DecimalDigits(FromLe(AsU64(self)))

\* a plausible slip: the stored bytes absorbed instead of the decimal text
int_objecthash_raw(self, h) ==
    objecthash_digest(h, INTEGER_TAG, self.val)

\* impl_inttype!: ObjectHash for an integer type
int_objecthash(self, h) ==
    objecthash_digest(h, INTEGER_TAG, to_string(self))

(***************************************************************************)
(* Text.  A string is held as its sequence of chars (code points); nfc()   *)
(* is UnicodeNormalization::nfc, canonical decomposition, canonical        *)
(* ordering and canonical composition, on the characters of the model's    *)
(* alphabet: U+0071 q, U+03D2, U+03D3 = U+03D2 U+0301, and the combining   *)
(* marks U+0301 (class 230) and U+0323 (class 220).                        *)
(***************************************************************************)
\* the canonical decomposition mapping of a char
canonical_decomposition(c) ==
    IF c = 979 THEN <<978, 769>> ELSE <<c>>

\* the primary composite of a starter and a following char, 0 for none
composite(s, c) ==
    IF s = 978 /\ c = 769 THEN 979 ELSE 0

\* Canonical_Combining_Class
canonical_combining_class(c) ==
    CASE c = 769 -> 230
      [] c = 803 -> 220
      [] OTHER -> 0

\* the full canonical decomposition, char by char
Decompose(s) ==
    Concat([i \in 1..Len(s) |-> canonical_decomposition(s[i])])

\* the positions where a mark follows a mark of a higher class
Misordered(s) ==
    {i \in 1..(Len(s) - 1) :
        /\ canonical_combining_class(s[i + 1]) > 0
        /\ canonical_combining_class(s[i]) >
               canonical_combining_class(s[i + 1])}

RECURSIVE Reorder(_)
\* canonical ordering: the marks of every run sorted by class, stably
Reorder(s) ==
    IF Misordered(s) = {} THEN s
    ELSE LET i == CHOOSE j \in Misordered(s) :
                      \A k \in Misordered(s) : j <= k
         IN  Reorder([s EXCEPT ![i] = s[i + 1], ![i + 1] = s[i]])

RECURSIVE ComposeFrom(_, _, _, _)
\* canonical composition of rest, after out has been produced; starter is
\* the position in out of the last starter (0 for none), last the class of
\* the last char of out
ComposeFrom(out, starter, last, rest) ==
    IF rest = <<>> THEN out
    ELSE LET c == Head(rest)
             cc == canonical_combining_class(c)
             p == IF starter > 0 /\ (last < cc \/ last = 0)
                  THEN composite(out[starter], c) ELSE 0
         IN  IF p # 0
             THEN ComposeFrom([out EXCEPT ![starter] = p], starter, last,
                              Tail(rest))
             ELSE ComposeFrom(Append(out, c),
                              IF cc = 0 THEN Len(out) + 1 ELSE starter,
                              cc, Tail(rest))

\* self.nfc().collect::<String>()
nfc(s) == ComposeFrom(<<>>, 0, 0, Reorder(Decompose(s)))

\* the UTF-8 encoding of a char
encode_utf8(c) ==
    IF c < 128 THEN <<c>>
    ELSE IF c < 2048 THEN <<192 + (c \div 64), 128 + (c % 64)>>
    ELSE <<224 + (c \div 4096), 128 + ((c \div 64) % 64), 128 + (c % 64)>>

\* String::as_bytes: the UTF-8 encoding of a string
as_bytes(s) == Concat([i \in 1..Len(s) |-> encode_utf8(s[i])])

\* a plausible slip: the string's own bytes absorbed, not normalized
str_objecthash_raw(self, h) ==
    objecthash_digest(h, STRING_TAG, as_bytes(self.val))

\* impl ObjectHash for str
str_objecthash(self, h) ==
    LET normalized == nfc(self.val)
    IN  objecthash_digest(h, STRING_TAG, as_bytes(normalized))

\* impl ObjectHash for String
String_objecthash(self, h) ==
    LET normalized == nfc(self.val)
    IN  objecthash_digest(h, STRING_TAG, as_bytes(normalized))

(***************************************************************************)
(* Sequences and mappings.  A Vec is held as the sequence of its elements, *)
(* a HashMap as the sequence of its (key, value) entries in the order its  *)
(* iter() yields them, the keys pairwise different under K's Eq.           *)
(***************************************************************************)
RECURSIVE objecthash(_, _)

RECURSIVE VecLoop(_, _)
\* for value in self { hasher.update_nested(|h| value.objecthash(h)); }
VecLoop(values, h) ==
    IF values = <<>> THEN h
    ELSE VecLoop(Tail(values),
                 update_nested(h, objecthash(Head(values), new_hasher)))

RECURSIVE VecLoopFlat(_, _)
\* a plausible slip: value.objecthash(hasher), no nested hasher
VecLoopFlat(values, h) ==
    IF values = <<>> THEN h
    ELSE VecLoopFlat(Tail(values), objecthash(Head(values), h))

\* a plausible slip: the elements hashed straight into the list's hasher
Vec_objecthash_flat(self, h) == VecLoopFlat(self.val, update(h, LIST_TAG))

\* macro objecthash_member!: the digest of an entry, from a hasher of its
\* own that absorbs the key and the value, each as a nested value
objecthash_member(k, v) ==
    finish(update_nested(update_nested(new_hasher,
                                       objecthash(k, new_hasher)),
                         objecthash(v, new_hasher)))

RECURSIVE SortedInsert(_, _)
\* x put into the sorted sequence of byte strings, after its equals
SortedInsert(x, sorted) ==
    IF sorted = <<>> THEN <<x>>
    ELSE IF LexLeq(Head(sorted), x)
    THEN <<Head(sorted)>> \o SortedInsert(x, Tail(sorted))
    ELSE <<x>> \o sorted

\* a plausible slip: the digests left in the order they were collected in
sort_skipped(digests) == digests

RECURSIVE sort(_)
\* digests.sort(): the byte strings in non-decreasing order
sort(digests) ==
    IF digests = <<>> THEN <<>>
    ELSE SortedInsert(Head(digests), sort(Tail(digests)))

RECURSIVE dedup(_)
\* Vec::dedup: consecutive equal elements merged
dedup(digests) ==
    IF Len(digests) < 2 THEN digests
    ELSE IF digests[1] = digests[2] THEN dedup(Tail(digests))
    ELSE <<Head(digests)>> \o dedup(Tail(digests))

\* self.iter().map(|(k, v)| objecthash_member!(k => v)).collect()
EntryDigests(self) ==
    [i \in 1..Len(self.val) |->
        objecthash_member(self.val[i][1], self.val[i][2])]

\* for value in &digests { hasher.update(value); }
UpdateAll(h, digests) == update(h, Concat(digests))

\* a plausible slip: the entry digests sorted and then deduplicated
HashMap_objecthash_dedup(self, h) ==
    UpdateAll(update(h, DICT_TAG), dedup(sort(EntryDigests(self))))

\* a plausible slip: the sort left out, the entries in iteration order
HashMap_objecthash_unsorted(self, h) ==
    UpdateAll(update(h, DICT_TAG), EntryDigests(self))

\* a plausible slip: the element digests sorted, as a mapping's are
Vec_objecthash_sorted(self, h) ==
    UpdateAll(update(h, LIST_TAG),
              sort([i \in 1..Len(self.val) |->
                       finish(objecthash(self.val[i], new_hasher))]))

\* impl ObjectHash for Vec<T>
Vec_objecthash(self, h) == VecLoop(self.val, update(h, LIST_TAG))

\* impl ObjectHash for HashMap<K, V, S>
HashMap_objecthash(self, h) ==
    UpdateAll(update(h, DICT_TAG), sort(EntryDigests(self)))

\* value.objecthash(hasher): the implementation of the value's type
objecthash(self, h) ==
    CASE self.kind = "int" -> int_objecthash(self, h)
      [] self.kind = "text" ->
            IF self.ty = "str" THEN str_objecthash(self, h)
            ELSE String_objecthash(self, h)
      [] self.kind = "list" -> Vec_objecthash(self, h)
      [] self.kind = "dict" -> HashMap_objecthash(self, h)

(***************************************************************************)
(* The harness h!, run twice, the second run after the first.              *)
(***************************************************************************)
\* let mut hasher = hasher::default(); the value is the harness's argument
InitOver(Values) ==
    /\ value \in [Runs -> Values]
    /\ hasher = [r \in Runs |-> new_hasher]
    /\ digest = [r \in Runs |-> <<>>]
    /\ pc = [r \in Runs |-> "new"]

\* run r is the one to move: run 2 starts when run 1 has finished
Turn(r) == r = 1 \/ pc[1] = "done"

\* $value.objecthash(&mut hasher), value of an integer type
HashInt(r) ==
    /\ Turn(r)
    /\ pc[r] = "new"
    /\ value[r].kind = "int"
    /\ hasher' = [hasher EXCEPT ![r] = int_objecthash(value[r], hasher[r])]
    /\ pc' = [pc EXCEPT ![r] = "hashed"]
    /\ UNCHANGED <<value, digest>>

\* $value.objecthash(&mut hasher), value a str or a String
HashStr(r) ==
    /\ Turn(r)
    /\ pc[r] = "new"
    /\ value[r].kind = "text"
    /\ hasher' = [hasher EXCEPT ![r] =
                    IF value[r].ty = "str"
                    THEN str_objecthash(value[r], hasher[r])
                    ELSE String_objecthash(value[r], hasher[r])]
    /\ pc' = [pc EXCEPT ![r] = "hashed"]
    /\ UNCHANGED <<value, digest>>

\* $value.objecthash(&mut hasher), value a Vec
HashVec(r) ==
    /\ Turn(r)
    /\ pc[r] = "new"
    /\ value[r].kind = "list"
    /\ hasher' = [hasher EXCEPT ![r] = Vec_objecthash(value[r], hasher[r])]
    /\ pc' = [pc EXCEPT ![r] = "hashed"]
    /\ UNCHANGED <<value, digest>>

\* $value.objecthash(&mut hasher), value a HashMap
HashDict(r) ==
    /\ Turn(r)
    /\ pc[r] = "new"
    /\ value[r].kind = "dict"
    /\ hasher' = [hasher EXCEPT ![r] =
                    HashMap_objecthash(value[r], hasher[r])]
    /\ pc' = [pc EXCEPT ![r] = "hashed"]
    /\ UNCHANGED <<value, digest>>

\* the orders in which a HashMap may yield the entries of the set es
Orderings(es) ==
    {o \in [1..Cardinality(es) -> es] :
        \A i, j \in 1..Cardinality(es) : o[i] = o[j] => i = j}

\* hashmap.insert(k, v): the value of an entry whose key equals k is
\* replaced; a new entry joins the map, whose iteration order is then any
InsertEntry(r, k, v) ==
    /\ Turn(r)
    /\ pc[r] = "new"
    /\ value[r].kind = "dict"
    /\ LET es == value[r].val
           at == {i \in 1..Len(es) : es[i][1] = k}
       IN  IF at # {}
           THEN value' = [value EXCEPT ![r].val =
                            [i \in 1..Len(es) |->
                                IF i \in at THEN <<k, v>> ELSE es[i]]]
           ELSE \E o \in Orderings({es[i] : i \in 1..Len(es)}
                                       \cup {<<k, v>>}) :
                    value' = [value EXCEPT ![r].val = o]
    /\ UNCHANGED <<hasher, digest, pc>>

\* hasher.finish()
Finish(r) ==
    /\ pc[r] = "hashed"
    /\ digest' = [digest EXCEPT ![r] = finish(hasher[r])]
    /\ pc' = [pc EXCEPT ![r] = "done"]
    /\ UNCHANGED <<value, hasher>>

(***************************************************************************)
(* Integer inputs.                                                         *)
(***************************************************************************)
IntSamples == (-MaxInt..MaxInt) \cup {-1000, -128, -10, 10, 127, 255, 1000}

\* whether type ty can represent n (n within 32 bits)
InRange(ty, n) ==
    CASE ty = "i8" -> -128 <= n /\ n <= 127
      [] ty = "u8" -> 0 <= n /\ n <= 255
      [] ty = "i16" -> -32768 <= n /\ n <= 32767
      [] ty = "u16" -> 0 <= n /\ n <= 65535
      [] ty \in SignedTypes -> TRUE
      [] OTHER -> 0 <= n

IntValues ==
    {Store(ty, n) : <<ty, n>> \in
        {tn \in IntTypes \X IntSamples : InRange(tn[1], tn[2])}}

InitInt == InitOver(IntValues)

NextInt == \E r \in Runs : HashInt(r) \/ Finish(r)

SpecInt == InitInt /\ [][NextInt]_vars

(***************************************************************************)
(* Text inputs.                                                            *)
(***************************************************************************)
Chars == {113, 769, 803, 978, 979}

\* the strings of at most n chars
StringsUpTo(n) == UNION {[1..k -> Chars] : k \in 0..n}

Text(ty, s) == [kind |-> "text", ty |-> ty, val |-> s]

TextValues ==
    {Text(ty, s) : <<ty, s>> \in {"str", "String"} \X StringsUpTo(MaxStrLen)}

InitStr == InitOver(TextValues)

NextStr == \E r \in Runs : HashStr(r) \/ Finish(r)

SpecStr == InitStr /\ [][NextStr]_vars

(***************************************************************************)
(* Sequence inputs: Vec<i32>, Vec<String> and Vec<Vec<u8>>.                *)
(***************************************************************************)
List(values) == [kind |-> "list", ty |-> "Vec", val |-> values]

\* the sequences of at most n elements of S
SeqsUpTo(S, n) == UNION {[1..k -> S] : k \in 0..n}

UPSILON_ACUTE_HOOK == Text("String", <<979>>)
UPSILON_HOOK_ACUTE == Text("String", <<978, 769>>)

VecInts == {Store("i32", n) : n \in {1, 2, 3}}
VecTexts == {UPSILON_ACUTE_HOOK, UPSILON_HOOK_ACUTE}
VecVecs == {List(<<>>), List(<<Store("u8", 1)>>)}

VecValues ==
    {List(vs) : vs \in SeqsUpTo(VecInts, MaxLen)
                          \cup SeqsUpTo(VecTexts, MaxLen)
                          \cup SeqsUpTo(VecVecs, MaxLen)}

InitVec == InitOver(VecValues)

NextVec == \E r \in Runs : HashVec(r) \/ Finish(r)

SpecVec == InitVec /\ [][NextVec]_vars

(***************************************************************************)
(* Mapping inputs: HashMap<String, i32>, built by insert from              *)
(* HashMap::new().                                                         *)
(***************************************************************************)
Dict(entries) == [kind |-> "dict", ty |-> "HashMap", val |-> entries]

MapKeys == {UPSILON_ACUTE_HOOK, UPSILON_HOOK_ACUTE, Text("String", <<113>>)}
MapVals == {Store("i32", n) : n \in 1..MaxMapVal}

InitMap == InitOver({Dict(<<>>)})

NextMap ==
    \E r \in Runs :
        \/ \E k \in MapKeys, v \in MapVals : InsertEntry(r, k, v)
        \/ HashDict(r)
        \/ Finish(r)

SpecMap == InitMap /\ [][NextMap]_vars

(***************************************************************************)
(* Value trees of every kind, nested: integers, strings, Vec<i8>,          *)
(* Vec<String>, HashMap<String, i8>, HashMap<u64, String>,                 *)
(* Vec<HashMap<String, i8>> and HashMap<String, HashMap<String, i8>>.      *)
(***************************************************************************)
\* the HashMaps with keys among K and values among V, in every iteration
\* order
DictsOver(K, V) ==
    {Dict(o) : o \in UNION {Orderings({<<k, f[k]>> : k \in DOMAIN f}) :
                               f \in UNION {[Ks -> V] : Ks \in SUBSET K}}}

TreeInts == {Store(ty, n) : <<ty, n>> \in {"i8", "u64"} \X (0..MaxTreeInt)}
TreeI8s == {Store("i8", n) : n \in 0..MaxTreeInt}
TreeU64s == {Store("u64", n) : n \in 0..MaxTreeInt}
TreeTexts == {Text("String", <<>>), Text("str", <<>>),
              UPSILON_ACUTE_HOOK, UPSILON_HOOK_ACUTE}
TreeKeys == {UPSILON_ACUTE_HOOK, Text("String", <<113>>)}
InnerMaps == DictsOver(TreeKeys, {Store("i8", 1)})

TreeValues ==
    TreeInts \cup TreeTexts
        \cup {List(vs) : vs \in SeqsUpTo(TreeI8s, MaxTreeLen)
                                  \cup SeqsUpTo(VecTexts, MaxTreeLen)
                                  \cup SeqsUpTo(InnerMaps, MaxTreeLen)}
        \cup DictsOver(TreeKeys, TreeI8s)
        \cup DictsOver(TreeU64s, {UPSILON_ACUTE_HOOK})
        \cup DictsOver(TreeKeys, InnerMaps)

Init == InitOver(TreeValues)

Next ==
    \E r \in Runs :
        \/ HashInt(r)
        \/ HashStr(r)
        \/ HashVec(r)
        \/ HashDict(r)
        \/ Finish(r)

Spec == Init /\ [][Next]_vars

(***************************************************************************)
(* What the claims speak of.                                               *)
(***************************************************************************)
Hashed(r) == pc[r] \in {"hashed", "done"}

\* the number a stored integer stands for, by two's complement:
\* -(~bits) - 1 for a negative value
NumValue(v) ==
    IF v.ty \in SignedTypes /\ v.val[Len(v.val)] >= 128
    THEN -FromLe(Not(v.val)) - 1
    ELSE FromLe(v.val)

IsDigit(b) == 48 <= b /\ b <= 57

RECURSIVE ParseDigits(_, _)
\* the number a string of ASCII digits stands for, acc the digits read
ParseDigits(acc, text) ==
    IF text = <<>> THEN acc
    ELSE ParseDigits(10 * acc + (Head(text) - 48), Tail(text))

\* text is the minimal decimal form of n
MinimalDecimal(text, n) ==
    LET digits == IF n < 0 THEN Tail(text) ELSE text
    IN  /\ Len(text) >= 1
        /\ (text[1] = 45) <=> (n < 0)
        /\ Len(digits) >= 1
        /\ \A i \in 1..Len(digits) : IsDigit(digits[i])
        /\ (n = 0) => text = <<48>>
        /\ (n # 0) => digits[1] # 48
        /\ ParseDigits(0, digits) = (IF n < 0 THEN -n ELSE n)

\* C2 (width invariance): two integers of any two integer types that hold
\* the same number make objecthash absorb the same bytes, the tag `i` and
\* then the same decimal text, and finish to the same digest.
C2_WidthInvariance ==
    (/\ Hashed(1) /\ Hashed(2)
     /\ value[1].kind = "int" /\ value[2].kind = "int"
     /\ NumValue(value[1]) = NumValue(value[2]))
    => /\ hasher[1] = hasher[2]
       /\ hasher[1][1] = 105
       /\ (pc[2] = "done" => digest[1] = digest[2])

\* -1 held as i8 and as i64, both runs finished
C2_Witness ==
    /\ pc[2] = "done"
    /\ value[1] = Store("i8", -1) /\ value[2] = Store("i64", -1)
    /\ digest[1] = digest[2]

\* C10 (integer canonical form): an integer of any integer type makes
\* objecthash absorb the tag `i` and then the minimal decimal ASCII text of
\* its number: digits only, no leading zero, one leading `-` exactly for a
\* negative number, `0` for zero; different numbers give different texts.
C10_IntegerCanonicalForm ==
    /\ \A r \in Runs :
          (Hashed(r) /\ value[r].kind = "int")
          => /\ Len(hasher[r]) >= 2
             /\ hasher[r][1] = 105
             /\ MinimalDecimal(Tail(hasher[r]), NumValue(value[r]))
    /\ (/\ Hashed(1) /\ Hashed(2)
        /\ value[1].kind = "int" /\ value[2].kind = "int"
        /\ NumValue(value[1]) # NumValue(value[2]))
       => hasher[1] # hasher[2]

\* -1000 as i16 and 0 as u8, both hashed
C10_Witness ==
    /\ Hashed(1) /\ Hashed(2)
    /\ value[1] = Store("i16", -1000) /\ value[2] = Store("u8", 0)
    /\ hasher[1] = <<105, 45, 49, 48, 48, 48>>
    /\ hasher[2] = <<105, 48>>

\* canonical equivalence of two strings: equal full canonical
\* decompositions in canonical order (their NFD forms)
CanonEquiv(s, t) == Reorder(Decompose(s)) = Reorder(Decompose(t))

RECURSIVE decode_utf8(_)
\* the chars a UTF-8 byte string (of 1- and 2-byte forms) encodes
decode_utf8(bytes) ==
    IF bytes = <<>> THEN <<>>
    ELSE IF Head(bytes) < 128
    THEN <<Head(bytes)>> \o decode_utf8(Tail(bytes))
    ELSE <<(bytes[1] - 192) * 64 + (bytes[2] - 128)>>
             \o decode_utf8(Tail(Tail(bytes)))

\* the marks of s are in canonical order and no char composes with the
\* starter before it
FullyComposed(s) ==
    /\ Misordered(s) = {}
    /\ \A i, j \in 1..Len(s) :
          (/\ i < j
           /\ canonical_combining_class(s[i]) = 0
           /\ \A k \in (i + 1)..(j - 1) :
                 /\ canonical_combining_class(s[k]) > 0
                 /\ canonical_combining_class(s[k]) <
                        canonical_combining_class(s[j]))
          => composite(s[i], s[j]) = 0

\* C3 (Unicode equivalence): two canonically equivalent strings, each held
\* as str or as String, make objecthash absorb the same bytes, the tag `u`
\* and then the UTF-8 bytes of their common NFC form, and finish to the
\* same digest.
C3_UnicodeEquivalence ==
    (/\ Hashed(1) /\ Hashed(2)
     /\ value[1].kind = "text" /\ value[2].kind = "text"
     /\ CanonEquiv(value[1].val, value[2].val))
    => /\ hasher[1] = hasher[2]
       /\ hasher[1][1] = 117
       /\ LET t == decode_utf8(Tail(hasher[1]))
          IN  /\ as_bytes(t) = Tail(hasher[1])
              /\ CanonEquiv(t, value[1].val)
              /\ CanonEquiv(t, value[2].val)
              /\ FullyComposed(t)
       /\ (pc[2] = "done" => digest[1] = digest[2])

\* U+03D3 as str and U+03D2 U+0301 as String, both runs finished
C3_Witness ==
    /\ pc[2] = "done"
    /\ value[1] = Text("str", <<979>>)
    /\ value[2] = Text("String", <<978, 769>>)
    /\ hasher[2] = <<117, 207, 147>>
    /\ digest[1] = digest[2]

\* the canonical encoding of a value: what a fresh hasher absorbs from it
Encoding(v) == objecthash(v, new_hasher)

\* the i-th block of DigestLen bytes after the tag
Chunk(h, i) == SubSeq(h, 2 + (i - 1) * DigestLen, 1 + i * DigestLen)

\* how often x occurs in the sequence s
Count(s, x) == Cardinality({i \in 1..Len(s) : s[i] = x})

\* s and t hold the same elements, each as often
SameMultiset(s, t) ==
    /\ Len(s) = Len(t)
    /\ \A i \in 1..Len(s) : Count(s, s[i]) = Count(t, s[i])

\* the digest primitive has no collision among the byte strings of S
NoCollision(S) == \A x, y \in S : Digest(x) = Digest(y) => x = y

\* the byte strings the two runs, of two sequences, hand to the primitive
VecDigestInputs ==
    {hasher[1], hasher[2]}
        \cup {Encoding(value[1].val[i]) : i \in 1..Len(value[1].val)}
        \cup {Encoding(value[2].val[i]) : i \in 1..Len(value[2].val)}

BothVecsHashed ==
    /\ Hashed(1) /\ Hashed(2)
    /\ value[1].kind = "list" /\ value[2].kind = "list"

\* C4 as stated (sequence order sensitivity): with no collision of the
\* digest primitive, two sequences that hold the same elements but differ
\* as ordered lists absorb different bytes and finish to different digests.
C4_AsStated ==
    (/\ BothVecsHashed
     /\ SameMultiset(value[1].val, value[2].val)
     /\ value[1].val # value[2].val
     /\ NoCollision(VecDigestInputs))
    => /\ hasher[1] # hasher[2]
       /\ (pc[2] = "done" => digest[1] # digest[2])

\* C4 as amended: with no collision of the digest primitive, two sequences
\* that hold the same elements and whose elements at some position differ
\* in canonical encoding absorb different bytes and finish to different
\* digests.
C4_OrderSensitivity ==
    (/\ BothVecsHashed
     /\ SameMultiset(value[1].val, value[2].val)
     /\ \E i \in 1..Len(value[1].val) :
           Encoding(value[1].val[i]) # Encoding(value[2].val[i])
     /\ NoCollision(VecDigestInputs))
    => /\ hasher[1] # hasher[2]
       /\ (pc[2] = "done" => digest[1] # digest[2])

\* [1, 2, 3] and [3, 2, 1], both runs finished, no collision
C4_Witness ==
    /\ pc[2] = "done"
    /\ value[1] = List(<<Store("i32", 1), Store("i32", 2), Store("i32", 3)>>)
    /\ value[2] = List(<<Store("i32", 3), Store("i32", 2), Store("i32", 1)>>)
    /\ NoCollision(VecDigestInputs)
    /\ digest[1] # digest[2]

\* C8 (sequence encoding): a sequence of n elements makes Vec::objecthash
\* absorb the tag `l` and then, element by element in list order, the
\* DigestLen-byte digest of the element's full encoding: 1 + n * DigestLen
\* bytes, and the tag alone for n = 0.
C8_SequenceEncoding ==
    \A r \in Runs :
        (Hashed(r) /\ value[r].kind = "list")
        => LET n == Len(value[r].val)
           IN  /\ Len(hasher[r]) = 1 + n * DigestLen
               /\ hasher[r][1] = 108
               /\ \A i \in 1..n :
                     Chunk(hasher[r], i) = Digest(Encoding(value[r].val[i]))
               /\ (n = 0) => hasher[r] = <<108>>

\* a Vec<Vec<u8>> of elements whose encodings differ in length, and []
C8_Witness ==
    /\ Hashed(1) /\ Hashed(2)
    /\ value[1] = List(<<List(<<Store("u8", 1)>>), List(<<>>)>>)
    /\ Len(Encoding(value[1].val[1])) # Len(Encoding(value[1].val[2]))
    /\ Len(hasher[1]) = 1 + 2 * DigestLen
    /\ value[2] = List(<<>>)
    /\ hasher[2] = <<108>>

\* the set of entries of a mapping
Entries(m) == {m.val[i] : i \in 1..Len(m.val)}

BothDictsHashed ==
    /\ Hashed(1) /\ Hashed(2)
    /\ value[1].kind = "dict" /\ value[2].kind = "dict"

\* C1 (mapping order insensitivity): two HashMaps that hold the same
\* key/value pairs, whatever the order of their insertion and the order
\* their iteration yields them in, absorb the same bytes and finish to the
\* same digest.
C1_MapOrderInsensitivity ==
    (BothDictsHashed /\ Entries(value[1]) = Entries(value[2]))
    => /\ hasher[1] = hasher[2]
       /\ (pc[2] = "done" => digest[1] = digest[2])

\* three entries, iterated in two different orders, both runs finished
C1_Witness ==
    /\ pc[2] = "done"
    /\ Len(value[1].val) = 3
    /\ Entries(value[1]) = Entries(value[2])
    /\ value[1].val[1] # value[2].val[1]
    /\ EntryDigests(value[1]) # EntryDigests(value[2])
    /\ digest[1] = digest[2]

\* digest x is not above digest y, comparing unsigned bytes from the left
ByteLeq(x, y) ==
    \/ x = y
    \/ \E i \in 1..DigestLen :
          /\ x[i] < y[i]
          /\ \A j \in 1..(i - 1) : x[j] = y[j]

\* C7 (mapping encoding): a mapping of n entries makes HashMap::objecthash
\* absorb the tag `d` and then n entry digests, one per entry, none dropped
\* or merged even when two are equal, each as it is, in non-decreasing
\* order of their unsigned bytes; the tag alone for n = 0.
C7_MappingEncoding ==
    \A r \in Runs :
        (Hashed(r) /\ value[r].kind = "dict")
        => LET n == Len(value[r].val)
               chunks == [i \in 1..n |-> Chunk(hasher[r], i)]
           IN  /\ Len(hasher[r]) = 1 + n * DigestLen
               /\ hasher[r][1] = 100
               /\ SameMultiset(chunks, EntryDigests(value[r]))
               /\ \A i \in 1..(n - 1) : ByteLeq(chunks[i], chunks[i + 1])
               /\ (n = 0) => hasher[r] = <<100>>

\* three entries, two of them with equal digests, and the empty mapping
C7_Witness ==
    /\ Hashed(1) /\ Hashed(2)
    /\ Len(value[1].val) = 3
    /\ \E i, j \in 1..3 :
          i # j /\ EntryDigests(value[1])[i] = EntryDigests(value[1])[j]
    /\ EntryDigests(value[1]) # sort(EntryDigests(value[1]))
    /\ value[2] = Dict(<<>>)
    /\ hasher[2] = <<100>>

\* C9 (mapping key uniqueness): no two entries of a mapping that
\* HashMap::objecthash hashes have keys with the same canonical encoding.
C9_KeysUniqueAsHashed ==
    \A r \in Runs :
        (Hashed(r) /\ value[r].kind = "dict")
        => \A i, j \in 1..Len(value[r].val) :
              Encoding(value[r].val[i][1]) = Encoding(value[r].val[j][1])
              => i = j

RECURSIVE SameValue(_, _)
\* v and w are the same value: equal, but for the order in which the
\* HashMaps they contain yield their entries
SameValue(v, w) ==
    /\ v.kind = w.kind
    /\ v.ty = w.ty
    /\ CASE v.kind = "list" ->
               /\ Len(v.val) = Len(w.val)
               /\ \A i \in 1..Len(v.val) : SameValue(v.val[i], w.val[i])
         [] v.kind = "dict" ->
               /\ Len(v.val) = Len(w.val)
               /\ \A i \in 1..Len(v.val) : \E j \in 1..Len(w.val) :
                     /\ v.val[i][1] = w.val[j][1]
                     /\ SameValue(v.val[i][2], w.val[j][2])
         [] OTHER -> v.val = w.val

\* C6 (determinism): two runs of objecthash on the same value tree, each
\* with a fresh hasher, absorb the same bytes and finish to the same
\* digest, even when the HashMaps of the tree yield their entries in
\* different orders in the two runs.
C6_Determinism ==
    (Hashed(1) /\ Hashed(2) /\ SameValue(value[1], value[2]))
    => /\ hasher[1] = hasher[2]
       /\ (pc[2] = "done" => digest[1] = digest[2])

\* a HashMap whose values are HashMaps, an inner and the outer one iterated
\* in another order in the second run, both runs finished
C6_Witness ==
    /\ pc[2] = "done"
    /\ value[1].kind = "dict"
    /\ Len(value[1].val) = 2
    /\ SameValue(value[1], value[2])
    /\ value[1].val[1][1] # value[2].val[1][1]
    /\ \E i, j \in 1..2 :
          /\ value[1].val[i][1] = value[2].val[j][1]
          /\ value[1].val[i][2].kind = "dict"
          /\ value[1].val[i][2] # value[2].val[j][2]
    /\ digest[1] = digest[2]

\* the empty sequence, the empty mapping, the integer 0, the empty string
IsEmptyOrZero(v) ==
    \/ v.kind \in {"list", "dict", "text"} /\ v.val = <<>>
    \/ v.kind = "int" /\ NumValue(v) = 0

\* C5 (structural distinctness): the empty sequence, the empty mapping,
\* the integer 0 and the empty string absorb `l`, `d`, `i0` and `u`, four
\* different byte strings with four different digests; two values of
\* different kinds never absorb the same bytes, their first bytes differ.
C5_StructuralDistinctness ==
    /\ \A r \in Runs :
          (Hashed(r) /\ IsEmptyOrZero(value[r]))
          => hasher[r] = (CASE value[r].kind = "list" -> <<108>>
                            [] value[r].kind = "dict" -> <<100>>
                            [] value[r].kind = "int" -> <<105, 48>>
                            [] value[r].kind = "text" -> <<117>>)
    /\ (Hashed(1) /\ Hashed(2) /\ value[1].kind # value[2].kind)
       => /\ hasher[1][1] # hasher[2][1]
          /\ hasher[1] # hasher[2]
          /\ (/\ pc[2] = "done"
              /\ IsEmptyOrZero(value[1]) /\ IsEmptyOrZero(value[2]))
             => digest[1] # digest[2]

\* the empty sequence and the empty mapping, both runs finished
C5_Witness ==
    /\ pc[2] = "done"
    /\ value[1] = List(<<>>) /\ value[2] = Dict(<<>>)
    /\ hasher[1] = <<108>> /\ hasher[2] = <<100>>
    /\ digest[1] # digest[2]

====
